---- MODULE Spec2Model ----
(***************************************************************************)
(* Model of claude_hook_v3.py: the EventMatcher rule tables and            *)
(* find_match, the AudioManager backend registry and delivery methods,     *)
(* HookHandler.handle_event and the main() dispatcher.                      *)
(*                                                                         *)
(* Python strings are sequences of one-character strings, so that          *)
(* re.match, the "in" tests of play_sound and == are computed character by *)
(* character.  An Optional value is a sequence of length at most one:      *)
(* None is << >> and a present value x is << x >>.                         *)
(***************************************************************************)
EXTENDS Integers, Sequences, FiniteSets, TLC

VARIABLES
    pc,             \* position of the run
    stdin,          \* what standard input holds: [kind, data]
    event_data,     \* the payload handed to find_match / handle_event
    result,         \* what find_match produced: a pair, or a raised error
    host,           \* the machine the availability probes look at
    config,         \* HookConfig: [mode, test_mode, fallback_enabled, async_speak]
    sound_players,  \* AudioManager.sound_players, by name, in order
    voice_players,  \* AudioManager.voice_players, by name, in order
    cache,          \* the lru_cache of _find_sound_file, least recent first
    trace,          \* the effects of the run, in order
    stage,          \* the step of main() that ran last
    caught,         \* the exception main() caught, "" when none
    exit_code,      \* None while running, then Some(status)
    calls,          \* play_sound / speak_text calls made on the AudioManager directly
    last,           \* the last such call: [op, arg, ret, raised, returned,
                    \* path], None before any
    world,          \* what the last call met outside the program: the audit
                    \* file, the sound directory, the spawns that raise and
                    \* the fate of every process it spawned
    looked_up       \* history: the names _find_sound_file returned for, each
                    \* with what it returned the first time

vars == <<pc, stdin, event_data, result, host, config, sound_players,
          voice_players, cache, trace, stage, caught, exit_code, calls, last,
          world, looked_up>>

(***************************************************************************)
(* Strings and JSON values                                                 *)
(***************************************************************************)
None == << >>
Some(x) == << x >>

\* A JSON value held by a payload field: absent from the mapping, null, a
\* number (any non-string scalar), a string s, or for tool_input a mapping.
Absent == [k |-> "absent", s |-> << >>]
JNull == [k |-> "null", s |-> << >>]
JNum == [k |-> "number", s |-> << >>]
Str(s) == [k |-> "str", s |-> s]

\* dict.get(key, default): the default only when the key is absent.
Get(v, default) == IF v.k = "absent" THEN default ELSE v

UpperCase == <<"A", "B", "C", "D", "E", "F", "G", "H", "I", "J", "K", "L", "M",
               "N", "O", "P", "Q", "R", "S", "T", "U", "V", "W", "X", "Y", "Z">>
LowerCase == <<"a", "b", "c", "d", "e", "f", "g", "h", "i", "j", "k", "l", "m",
               "n", "o", "p", "q", "r", "s", "t", "u", "v", "w", "x", "y", "z">>

\* re.IGNORECASE compares characters up to case.
ToLower == [c \in {UpperCase[i] : i \in 1..Len(UpperCase)} |->
               LowerCase[CHOOSE i \in 1..Len(UpperCase) : UpperCase[i] = c]]
Lower(c) == IF c \in DOMAIN ToLower THEN ToLower[c] ELSE c

\* \s of a str pattern.
WhiteSpace == {" ", "\t", "\n", "\r", "\f"}

(***************************************************************************)
(* Regular expressions of the rule tables.  A regex is a sequence of       *)
(* alternatives (a|b), an alternative a sequence of atoms: a literal       *)
(* character, \s+ or .* ; the ^ anchors are implied by re.match.           *)
(***************************************************************************)
Lit(s) == [i \in 1..Len(s) |-> [t |-> "lit", c |-> s[i]]]
WsPlus == << [t |-> "ws+", c |-> ""] >>
AnyStar == << [t |-> "any*", c |-> ""] >>

RECURSIVE MatchAt(_, _, _, _)
\* Whether atoms[i..] match text starting at position j (re.match: anchored
\* at the start, free at the end; backtracking = some split works).
MatchAt(atoms, i, text, j) ==
    IF i > Len(atoms) THEN TRUE
    ELSE LET a == atoms[i] IN
         CASE a.t = "lit" ->
                /\ j <= Len(text)
                /\ Lower(text[j]) = Lower(a.c)
                /\ MatchAt(atoms, i + 1, text, j + 1)
           [] a.t = "ws+" ->
                \E n \in 1..(Len(text) - j + 1) :
                    /\ \A m \in j..(j + n - 1) : text[m] \in WhiteSpace
                    /\ MatchAt(atoms, i + 1, text, j + n)
           [] a.t = "any*" ->
                \E n \in 0..(Len(text) - j + 1) :
                    /\ \A m \in j..(j + n - 1) : text[m] # "\n"
                    /\ MatchAt(atoms, i + 1, text, j + n)

re_match(regex, text) == \E a \in 1..Len(regex) : MatchAt(regex[a], 1, text, 1)

Pattern(regex, sound, voice_key, priority) ==
    [regex |-> regex, sound |-> sound, voice_key |-> voice_key, priority |-> priority]

\* Mutant of matches: the regex is searched for anywhere in the text
\* (re.search) instead of matched from its start.
matches_search(pattern, text) ==
    \E j \in 1..(Len(text) + 1) :
        \E a \in 1..Len(pattern.regex) : MatchAt(pattern.regex[a], 1, text, j)

\* Pattern.matches on a str; on any other value re.match raises TypeError.
matches(pattern, text) == re_match(pattern.regex, text)

system_events == <<
    Pattern(<<Lit(<<"N", "o", "t", "i", "f", "i", "c", "a", "t", "i", "o", "n">>)>>, <<"r", "e", "a", "d", "y">>, "Notification", 100),
    Pattern(<<Lit(<<"S", "t", "o", "p">>)>>, <<"c", "o", "m", "p", "l", "e", "t", "e">>, "Stop", 100),
    Pattern(<<Lit(<<"S", "u", "b", "a", "g", "e", "n", "t", "S", "t", "o", "p">>)>>, <<"c", "o", "m", "p", "l", "e", "t", "e">>, "SubagentStop", 100),
    Pattern(<<Lit(<<"U", "s", "e", "r", "P", "r", "o", "m", "p", "t", "S", "u", "b", "m", "i", "t">>)>>, <<"p", "r", "o", "m", "p", "t">>, "UserPromptSubmit", 100) >>

tools == <<
    Pattern(<<Lit(<<"E", "d", "i", "t">>)>>, <<"e", "d", "i", "t">>, "Edit", 90),
    Pattern(<<Lit(<<"M", "u", "l", "t", "i", "E", "d", "i", "t">>)>>, <<"e", "d", "i", "t">>, "MultiEdit", 90),
    Pattern(<<Lit(<<"W", "r", "i", "t", "e">>)>>, <<"w", "r", "i", "t", "e">>, "Write", 90),
    Pattern(<<Lit(<<"N", "o", "t", "e", "b", "o", "o", "k", "E", "d", "i", "t">>)>>, <<"e", "d", "i", "t">>, "NotebookEdit", 90),
    Pattern(<<Lit(<<"T", "o", "d", "o", "W", "r", "i", "t", "e">>)>>, <<"l", "i", "s", "t">>, "TodoWrite", 80),
    Pattern(<<Lit(<<"R", "e", "a", "d">>)>>, <<"r", "e", "a", "d">>, "Read", 70),
    Pattern(<<Lit(<<"G", "r", "e", "p">>)>>, <<"s", "e", "a", "r", "c", "h">>, "Grep", 70),
    Pattern(<<Lit(<<"T", "a", "s", "k">>)>>, <<"t", "a", "s", "k">>, "Task", 70),
    Pattern(<<Lit(<<"L", "S">>)>>, <<"l", "i", "s", "t">>, "LS", 70),
    Pattern(<<Lit(<<"G", "l", "o", "b">>)>>, <<"s", "e", "a", "r", "c", "h">>, "Glob", 70),
    Pattern(<<Lit(<<"e", "x", "i", "t", "_", "p", "l", "a", "n", "_", "m", "o", "d", "e">>)>>, <<"c", "o", "m", "p", "l", "e", "t", "e">>, "exit_plan_mode", 70),
    Pattern(<<Lit(<<"W", "e", "b", "F", "e", "t", "c", "h">>)>>, <<"w", "e", "b">>, "WebFetch", 70),
    Pattern(<<Lit(<<"W", "e", "b", "S", "e", "a", "r", "c", "h">>)>>, <<"s", "e", "a", "r", "c", "h">>, "WebSearch", 70) >>

bash_commands == <<
    Pattern(<<Lit(<<"g", "i", "t">>) \o WsPlus \o Lit(<<"c", "o", "m", "m", "i", "t">>)>>, <<"c", "o", "m", "m", "i", "t">>, "git_commit", 95),
    Pattern(<<Lit(<<"g", "i", "t">>) \o WsPlus \o Lit(<<"p", "u", "s", "h">>)>>, <<"p", "u", "s", "h">>, "git_push", 95),
    Pattern(<<Lit(<<"g", "i", "t">>) \o WsPlus \o Lit(<<"p", "u", "l", "l">>)>>, <<"p", "u", "l", "l">>, "git_pull", 95),
    Pattern(<<Lit(<<"g", "h">>) \o WsPlus \o Lit(<<"p", "r">>)>>, <<"p", "r">>, "gh_pr", 95),
    Pattern(<<Lit(<<"n", "p", "m">>) \o WsPlus \o Lit(<<"t", "e", "s", "t">>),
              Lit(<<"y", "a", "r", "n">>) \o WsPlus \o Lit(<<"t", "e", "s", "t">>)>>, <<"t", "e", "s", "t">>, "test", 90),
    Pattern(<<Lit(<<"p", "y", "t", "e", "s", "t">>),
              Lit(<<"p", "y", "t", "h", "o", "n">>) \o AnyStar \o Lit(<<"t", "e", "s", "t">>)>>, <<"t", "e", "s", "t">>, "test", 90),
    Pattern(<<Lit(<<"g", "o">>) \o WsPlus \o Lit(<<"t", "e", "s", "t">>)>>, <<"t", "e", "s", "t">>, "test", 90),
    Pattern(<<Lit(<<"c", "a", "r", "g", "o">>) \o WsPlus \o Lit(<<"t", "e", "s", "t">>)>>, <<"t", "e", "s", "t">>, "test", 90),
    Pattern(<<Lit(<<"m", "a", "k", "e">>)>>, <<"b", "u", "i", "l", "d">>, "build", 85),
    Pattern(<<Lit(<<"d", "o", "c", "k", "e", "r">>)>>, <<"d", "o", "c", "k", "e", "r">>, "docker", 85),
    Pattern(<<Lit(<<"n", "p", "m">>)>>, <<"n", "p", "m">>, "npm", 85),
    Pattern(<<Lit(<<"p", "y", "t", "h", "o", "n">>)>>, <<"p", "y", "t", "h", "o", "n">>, "python", 85),
    Pattern(<<AnyStar>>, <<"b", "a", "s", "h">>, "Bash", 0) >>

(***************************************************************************)
(* EventMatcher.find_match                                                 *)
(***************************************************************************)
Return(sound, voice_key) == [raised |-> "", sound |-> sound, voice_key |-> voice_key]
Raise(error) == [raised |-> error, sound |-> None, voice_key |-> None]
NullDirective == Return(None, None)

\* for pattern in table: if pattern.matches(text): return ...   The index of
\* the pattern the loop returns at, 0 when the loop runs to its end.
RECURSIVE first_match(_, _, _)
first_match(table, text, i) ==
    IF i > Len(table) THEN 0
    ELSE IF matches(table[i], text) THEN i
    ELSE first_match(table, text, i + 1)

\* matches = [p for p in bash_commands if p.matches(command)], as indexes.
\* Mutant of collect_matches: the loop stops one rule short of the table's end.
RECURSIVE collect_matches_short(_, _, _)
collect_matches_short(table, text, i) ==
    IF i >= Len(table) THEN << >>
    ELSE (IF matches(table[i], text) THEN << i >> ELSE << >>)
         \o collect_matches_short(table, text, i + 1)

RECURSIVE collect_matches(_, _, _)
collect_matches(table, text, i) ==
    IF i > Len(table) THEN << >>
    ELSE (IF matches(table[i], text) THEN << i >> ELSE << >>)
         \o collect_matches(table, text, i + 1)

\* max(matches, key=lambda p: p.priority): the running maximum is replaced
\* only by a strictly greater key.
RECURSIVE py_max(_, _, _, _)
py_max(table, found, n, best) ==
    IF n > Len(found) THEN best
    ELSE py_max(table, found, n + 1,
                IF table[found[n]].priority > table[best].priority
                THEN found[n] ELSE best)

\* Mutant of best_match: the last match is taken, whatever its priority.
best_match_last(table, found) == found[Len(found)]

best_match(table, found) == py_max(table, found, 2, found[1])

bash_match(command) ==
    LET found == collect_matches(bash_commands, command, 1) IN
    IF found # << >>
    THEN LET best == bash_commands[best_match(bash_commands, found)]
         IN  Return(Some(best.sound), Some(best.voice_key))
    ELSE NullDirective

\* Mutant of tools_then_bash: the shell rules are consulted for the Bash
\* tool whatever the event is.
tools_then_bash_any_event(event_name, tool_name, tool_input) ==
    IF tool_name.k # "str" THEN Raise("TypeError")
    ELSE LET t == first_match(tools, tool_name.s, 1) IN
         IF t # 0 THEN Return(Some(tools[t].sound), Some(tools[t].voice_key))
         ELSE IF tool_name.s = <<"B", "a", "s", "h">>
         THEN LET input == Get(tool_input, [k |-> "dict", command |-> Absent]) IN
              IF input.k # "dict" THEN Raise("AttributeError")
              ELSE LET command == Get(input.command, Str(<< >>)) IN
                   IF command.k # "str" THEN Raise("TypeError")
                   ELSE bash_match(command.s)
         ELSE NullDirective

\* Mutant of tools_then_bash: an event no rule applies to gets the catch-all
\* sound with no description key.
tools_then_bash_half_filled(event_name, tool_name, tool_input) ==
    IF tool_name.k # "str" THEN Raise("TypeError")
    ELSE LET t == first_match(tools, tool_name.s, 1) IN
         IF t # 0 THEN Return(Some(tools[t].sound), Some(tools[t].voice_key))
         ELSE IF tool_name.s = <<"B", "a", "s", "h">> /\ event_name.s = <<"P", "r", "e", "T", "o", "o", "l", "U", "s", "e">>
         THEN LET input == Get(tool_input, [k |-> "dict", command |-> Absent]) IN
              IF input.k # "dict" THEN Raise("AttributeError")
              ELSE LET command == Get(input.command, Str(<< >>)) IN
                   IF command.k # "str" THEN Raise("TypeError")
                   ELSE bash_match(command.s)
         ELSE Return(Some(<<"b", "a", "s", "h">>), None)

tools_then_bash(event_name, tool_name, tool_input) ==
    IF tool_name.k # "str" THEN Raise("TypeError")
    ELSE LET t == first_match(tools, tool_name.s, 1) IN
         IF t # 0 THEN Return(Some(tools[t].sound), Some(tools[t].voice_key))
         ELSE IF tool_name.s = <<"B", "a", "s", "h">> /\ event_name.s = <<"P", "r", "e", "T", "o", "o", "l", "U", "s", "e">>
         THEN LET input == Get(tool_input, [k |-> "dict", command |-> Absent]) IN
              IF input.k # "dict" THEN Raise("AttributeError")
              ELSE LET command == Get(input.command, Str(<< >>)) IN
                   IF command.k # "str" THEN Raise("TypeError")
                   ELSE bash_match(command.s)
         ELSE NullDirective

\* Mutant of find_match: the tool rules are consulted before the system rules.
find_match_tools_first(data) ==
    IF data.k # "dict" THEN Raise("AttributeError")
    ELSE LET event_name == Get(data.hook_event_name, Str(<< >>))
             tool_name == Get(data.tool_name, Str(<< >>))
         IN  IF tool_name.k # "str" THEN Raise("TypeError")
             ELSE LET t == first_match(tools, tool_name.s, 1) IN
                  IF t # 0
                  THEN Return(Some(tools[t].sound), Some(tools[t].voice_key))
                  ELSE IF event_name.k # "str" THEN Raise("TypeError")
                  ELSE LET s == first_match(system_events, event_name.s, 1) IN
                       IF s # 0
                       THEN Return(Some(system_events[s].sound),
                                   Some(system_events[s].voice_key))
                       ELSE tools_then_bash(event_name, tool_name, data.tool_input)

find_match(data) ==
    IF data.k # "dict" THEN Raise("AttributeError")
    ELSE LET event_name == Get(data.hook_event_name, Str(<< >>))
             tool_name == Get(data.tool_name, Str(<< >>))
         IN  IF event_name.k # "str" THEN Raise("TypeError")
             ELSE LET s == first_match(system_events, event_name.s, 1) IN
                  IF s # 0
                  THEN Return(Some(system_events[s].sound),
                              Some(system_events[s].voice_key))
                  ELSE tools_then_bash(event_name, tool_name, data.tool_input)

(***************************************************************************)
(* Payloads                                                                *)
(***************************************************************************)
EventNames == {
    <<>>, <<"N", "o", "t", "i", "f", "i", "c", "a", "t", "i", "o", "n">>, <<"n", "o", "t", "i", "f", "i", "c", "a", "t", "i", "o", "n">>, <<"S", "t", "o", "p">>, <<"S", "t", "o", "p", "p", "e", "d">>, <<"S", "u", "b", "a", "g", "e", "n", "t", "S", "t", "o", "p">>,
    <<"U", "s", "e", "r", "P", "r", "o", "m", "p", "t", "S", "u", "b", "m", "i", "t">>, <<"P", "r", "e", "T", "o", "o", "l", "U", "s", "e">>, <<"p", "r", "e", "t", "o", "o", "l", "u", "s", "e">>, <<"P", "o", "s", "t", "T", "o", "o", "l", "U", "s", "e">>, <<"O", "n", "S", "t", "o", "p">> }

ToolNames == {
    <<>>, <<"B", "a", "s", "h">>, <<"b", "a", "s", "h">>, <<"E", "d", "i", "t">>, <<"M", "u", "l", "t", "i", "E", "d", "i", "t">>, <<"m", "u", "l", "t", "i", "e", "d", "i", "t">>, <<"E", "d", "i", "t", "F", "i", "l", "e">>,
    <<"T", "o", "d", "o", "W", "r", "i", "t", "e">>, <<"T", "a", "s", "k">>, <<"S", "h", "e", "l", "l">>,
    <<"W", "r", "i", "t", "e">>, <<"N", "o", "t", "e", "b", "o", "o", "k", "E", "d", "i", "t">>, <<"R", "e", "a", "d">>, <<"G", "r", "e", "p">>, <<"L", "S">>,
    <<"G", "l", "o", "b">>, <<"e", "x", "i", "t", "_", "p", "l", "a", "n", "_", "m", "o", "d", "e">>, <<"W", "e", "b", "F", "e", "t", "c", "h">>, <<"W", "e", "b", "S", "e", "a", "r", "c", "h">> }

Commands == {
    <<>>, <<"g", "i", "t", " ", "c", "o", "m", "m", "i", "t", " ", "-", "m", " ", "x">>, <<"g", "i", "t", "\t", "c", "o", "m", "m", "i", "t">>, <<"g", "i", "t", "c", "o", "m", "m", "i", "t">>, <<"G", "I", "T", " ", " ", "P", "U", "S", "H">>, <<"g", "i", "t", " ", "p", "u", "l", "l">>,
    <<"g", "i", "t", " ", "s", "t", "a", "t", "u", "s">>, <<"g", "h", " ", "p", "r", " ", "c", "r", "e", "a", "t", "e">>, <<"n", "p", "m", " ", "t", "e", "s", "t">>, <<"n", "p", "m", " ", "i", "n", "s", "t", "a", "l", "l">>, <<"y", "a", "r", "n", " ", "t", "e", "s", "t">>,
    <<"p", "y", "t", "e", "s", "t", " ", "-", "q">>, <<"p", "y", "t", "h", "o", "n", " ", "r", "u", "n", "_", "t", "e", "s", "t", ".", "p", "y">>, <<"p", "y", "t", "h", "o", "n", " ", "a", "p", "p", ".", "p", "y">>, <<"p", "y", "t", "h", "o", "n", " ", "a", "\n", "t", "e", "s", "t">>,
    <<"g", "o", " ", "t", "e", "s", "t">>, <<"c", "a", "r", "g", "o", " ", "t", "e", "s", "t">>, <<"m", "a", "k", "e", " ", "t", "e", "s", "t">>, <<"d", "o", "c", "k", "e", "r", " ", "p", "s">>, <<"l", "s", " ", "-", "l", "a">>,
    <<" ", "g", "i", "t", " ", "c", "o", "m", "m", "i", "t">>, <<"e", "c", "h", "o", " ", "n", "p", "m">>, <<"\n", "l", "s">> }

Scalars == {Absent, JNull, JNum}

ToolInputs ==
    {[k |-> "absent", command |-> Absent], [k |-> "null", command |-> Absent],
     [k |-> "str", command |-> Absent]}
    \cup {[k |-> "dict", command |-> c] : c \in Scalars \cup {Str(s) : s \in Commands}}

Dict(name, tool, input) ==
    [k |-> "dict", hook_event_name |-> name, tool_name |-> tool, tool_input |-> input]

\* Every JSON object the run may be given, well-formed or not.
Events ==
    {Dict(n, t, i) : n \in Scalars \cup {Str(s) : s \in EventNames},
                     t \in Scalars \cup {Str(s) : s \in ToolNames},
                     i \in ToolInputs}

\* A JSON document that is not an object (a list, a number, a string).
NonObject ==
    [k |-> "list", hook_event_name |-> Absent, tool_name |-> Absent,
     tool_input |-> [k |-> "absent", command |-> Absent]]

NoResult == Raise("not called")

(***************************************************************************)
(* find_match applied to one payload                                       *)
(***************************************************************************)
NoConfig ==
    [mode |-> "", test_mode |-> FALSE, fallback_enabled |-> FALSE,
     async_speak |-> TRUE]
NoHost == [on_path |-> {}, system |-> ""]
NoWorld == [audit_ok |-> TRUE, on_disk |-> {}, failing |-> {}, children |-> << >>]
NoStdin == [kind |-> "", data |-> NonObject]

MatchInit ==
    /\ pc = "input"
    /\ event_data \in Events \cup {NonObject}
    /\ result = NoResult
    /\ stdin = NoStdin
    /\ host = NoHost
    /\ config = NoConfig
    /\ sound_players = << >>
    /\ voice_players = << >>
    /\ cache = << >>
    /\ trace = << >>
    /\ stage = ""
    /\ caught = ""
    /\ exit_code = None
    /\ calls = 0
    /\ last = None
    /\ world = NoWorld
    /\ looked_up = {}

Match ==
    /\ pc = "input"
    /\ result' = find_match(event_data)
    /\ pc' = "matched"
    /\ UNCHANGED <<stdin, event_data, host, config, sound_players, voice_players,
                   cache, trace, stage, caught, exit_code, calls, last, world, looked_up>>

MatchNext == Match

MatchSpec == MatchInit /\ [][MatchNext]_vars

(***************************************************************************)
(* Backends.  The host is what the availability probes look at: the        *)
(* executables `which` finds and platform.system().                        *)
(***************************************************************************)
Executables == {"afplay", "play", "say", "espeak"}
Systems == {"Darwin", "Linux"}
Hosts == [on_path : SUBSET Executables, system : Systems]

sound_player_classes == <<"afplay", "sox", "system_beep">>
voice_player_classes == <<"macos_say", "espeak">>

\* SoundPlayer.is_available / VoicePlayer.is_available of each class.
is_available(player, h) ==
    CASE player = "afplay" -> "afplay" \in h.on_path
      [] player = "sox" -> "play" \in h.on_path
      [] player = "system_beep" -> TRUE
      [] player = "macos_say" -> "say" \in h.on_path /\ h.system = "Darwin"
      [] player = "espeak" -> "espeak" \in h.on_path

RECURSIVE probe_all(_, _, _)
\* players = [c() for c in classes if c().is_available()]
probe_all(classes, h, i) ==
    IF i > Len(classes) THEN << >>
    ELSE (IF is_available(classes[i], h) THEN << classes[i] >> ELSE << >>)
         \o probe_all(classes, h, i + 1)

\* Mutant of init_sound_players: only the probed external players are kept.
init_sound_players_probed_only(h) == probe_all(<<"afplay", "sox">>, h, 1)

init_sound_players(h) ==
    LET players == probe_all(sound_player_classes, h, 1) IN
    IF players = << >> THEN << "system_beep" >> ELSE players

init_voice_players(h) == probe_all(voice_player_classes, h, 1)

(***************************************************************************)
(* Observable effects of a call, in the order they happen.                 *)
(***************************************************************************)
Effect(op, arg) == [op |-> op, arg |-> arg]

\* A backend's play / speak: True unless spawning the process raises.
attempt(player, failing) == player \notin failing

\* What becomes of a process a backend started: it ends with status 0, it
\* ends with another status (a crash included), or it never ends.
Fates == {"zero", "nonzero", "hangs"}

\* Whether the attempt starts a process: the spawn did not raise, and the
\* beep player spawns osascript on Darwin and prints the bell elsewhere.
spawns(player, failing, h) ==
    /\ player \notin failing
    /\ player = "system_beep" => h.system = "Darwin"

\* Mutant of waits: the voice backends wait for the child whatever
\* async_speak says.
waits_ignoring_async(player, cfg) == player \in {"macos_say", "espeak"}

\* Whether the backend waits for the process it started: the voice backends
\* use subprocess.run when async_speak is off and subprocess.Popen when it is
\* on; the sound backends always use subprocess.Popen.
waits(player, cfg) == player \in {"macos_say", "espeak"} /\ ~cfg.async_speak

\* The positions, in the effects of a call, of the attempts that started a
\* process.
RECURSIVE spawn_indexes(_, _, _, _)
spawn_indexes(effects, failing, h, i) ==
    IF i > Len(effects) THEN << >>
    ELSE (IF effects[i].op \in {"play", "speak", "beep"}
             /\ spawns(effects[i].arg, failing, h)
          THEN << i >> ELSE << >>)
         \o spawn_indexes(effects, failing, h, i + 1)

\* The call as its caller sees it, fates[k] being the fate of the k-th
\* process it started: a backend that waits for a process that never ends
\* never returns, and the call stops there.
outcome(effects, failing, h, cfg, fates) ==
    LET sp == spawn_indexes(effects, failing, h, 1)
        stuck == {k \in 1..Len(sp) :
                    waits(effects[sp[k]].arg, cfg) /\ fates[k] = "hangs"}
        n == IF stuck = {} THEN Len(sp)
             ELSE CHOOSE k \in stuck : \A j \in stuck : k <= j
    IN  [returned |-> stuck = {},
         effects |-> IF stuck = {} THEN effects ELSE SubSeq(effects, 1, sp[n]),
         children |-> [k \in 1..n |->
                          [player |-> effects[sp[k]].arg, fate |-> fates[k]]]]

\* What a call met outside the program: whether the audit file could be
\* written, the extensions on disk if the sound directory was looked at, the
\* backends it attempted whose spawn raised, and its children.
met(audit_ok, on_disk, failing, effects, children) ==
    [audit_ok |-> audit_ok,
     on_disk |-> IF \E i \in 1..Len(effects) : effects[i].op = "exists"
                 THEN on_disk ELSE {},
     failing |-> {p \in failing : \E i \in 1..Len(effects) :
                     effects[i].op \in {"play", "speak", "beep"} /\ effects[i].arg = p},
     children |-> children]

(***************************************************************************)
(* AudioManager._find_sound_file under functools.lru_cache                 *)
(***************************************************************************)
Extensions == <<".wav", ".mp3", ".ogg", ".m4a", ".flac">>
CacheMaxSize == 32

\* The sound directory cannot be searched: Path.exists() re-raises the
\* OSError of stat() unless it is ENOENT, ENOTDIR, EBADF or ELOOP.
Denied == {"EACCES"}

\* The first extension whose file exists, None when none does; `on_disk` is
\* the set of extensions for which sound_path.exists() is true.
RECURSIVE scan_extensions(_, _)
scan_extensions(on_disk, i) ==
    IF i > Len(Extensions) THEN [path |-> None, effects |-> << >>, raised |-> ""]
    ELSE IF on_disk = Denied
         THEN [path |-> None, effects |-> << Effect("exists", Extensions[i]) >>,
               raised |-> "PermissionError"]
    ELSE IF Extensions[i] \in on_disk
         THEN [path |-> Some(Extensions[i]),
               effects |-> << Effect("exists", Extensions[i]) >>, raised |-> ""]
         ELSE LET rest == scan_extensions(on_disk, i + 1)
              IN  [path |-> rest.path,
                   effects |-> << Effect("exists", Extensions[i]) >> \o rest.effects,
                   raised |-> ""]

CacheIndex(lru, name) ==
    IF \E i \in 1..Len(lru) : lru[i].name = name
    THEN CHOOSE i \in 1..Len(lru) : lru[i].name = name
    ELSE 0

\* A hit returns the stored result and makes the entry the most recent; a
\* miss runs the body, stores the result (None included) and evicts the
\* least recently used entry beyond maxsize.  A body that raises stores
\* nothing.
find_sound_file(name, lru, on_disk) ==
    LET i == CacheIndex(lru, name) IN
    IF i # 0
    THEN [path |-> lru[i].path, effects |-> << >>, raised |-> "",
          cache |-> SubSeq(lru, 1, i - 1) \o SubSeq(lru, i + 1, Len(lru))
                    \o << lru[i] >>]
    ELSE LET scan == scan_extensions(on_disk, 1)
             grown == Append(lru, [name |-> name, path |-> scan.path])
         IN  IF scan.raised # ""
             THEN [path |-> None, effects |-> scan.effects, raised |-> scan.raised,
                   cache |-> lru]
             ELSE [path |-> scan.path, effects |-> scan.effects, raised |-> "",
                   cache |-> IF Len(grown) > CacheMaxSize THEN Tail(grown) ELSE grown]

\* The history of first results after _find_sound_file(name): a name is
\* entered with the result of the first call that returned for it.
remember(seen, name, found) ==
    IF found.raised # "" \/ (\E e \in seen : e.name = name) THEN seen
    ELSE seen \cup {[name |-> name, path |-> found.path]}

(***************************************************************************)
(* AudioManager.play_sound and speak_text                                  *)
(***************************************************************************)
\* sub in s
Contains(s, sub) ==
    \E i \in 1..(Len(s) - Len(sub) + 1) : SubSeq(s, i, i + Len(sub) - 1) = sub

\* Mutant of InvalidSoundName: the backslash test is left out.
InvalidSoundName_no_backslash(name) ==
    \/ Contains(name, <<"/">>)
    \/ Contains(name, <<".", ".">>)

InvalidSoundName(name) ==
    \/ Contains(name, <<"/">>)
    \/ Contains(name, <<"\\">>)
    \/ Contains(name, <<".", ".">>)

play_system_beep(failing) ==
    [ret |-> attempt("system_beep", failing), effects |-> << Effect("beep", "system_beep") >>]

\* Mutant of try_players: the loop goes on after a player succeeded.
RECURSIVE try_players_no_stop(_, _, _, _)
try_players_no_stop(op, players, failing, i) ==
    IF i > Len(players) THEN [ret |-> FALSE, effects |-> << >>]
    ELSE LET rest == try_players_no_stop(op, players, failing, i + 1)
         IN  [ret |-> attempt(players[i], failing) \/ rest.ret,
              effects |-> << Effect(op, players[i]) >> \o rest.effects]

\* Mutant of try_players: the availability of a player is probed again
\* before each attempt.
RECURSIVE try_players_reprobing(_, _, _, _)
try_players_reprobing(op, players, failing, i) ==
    IF i > Len(players) THEN [ret |-> FALSE, effects |-> << >>]
    ELSE IF attempt(players[i], failing)
         THEN [ret |-> TRUE,
               effects |-> << Effect("probe", players[i]), Effect(op, players[i]) >>]
         ELSE LET rest == try_players_reprobing(op, players, failing, i + 1)
              IN  [ret |-> rest.ret,
                   effects |-> << Effect("probe", players[i]), Effect(op, players[i]) >>
                               \o rest.effects]

RECURSIVE try_players(_, _, _, _)
\* for player in players: if player.<op>(...): return True
try_players(op, players, failing, i) ==
    IF i > Len(players) THEN [ret |-> FALSE, effects |-> << >>]
    ELSE IF attempt(players[i], failing)
         THEN [ret |-> TRUE, effects |-> << Effect(op, players[i]) >>]
         ELSE LET rest == try_players(op, players, failing, i + 1)
              IN  [ret |-> rest.ret,
                   effects |-> << Effect(op, players[i]) >> \o rest.effects]

Returned(ret, effects, lru) ==
    [ret |-> ret, raised |-> "", effects |-> effects, cache |-> lru]

\* Mutant of play_sound: once every player failed the beep is played
\* whether or not the fallback is enabled.
play_sound_beep_unconditional(name, players, fallback_enabled, lru, on_disk, failing) ==
    IF InvalidSoundName(name) THEN Returned(FALSE, << >>, lru)
    ELSE LET found == find_sound_file(name, lru, on_disk) IN
         IF found.raised # ""
         THEN [ret |-> FALSE, raised |-> found.raised, effects |-> found.effects,
               cache |-> found.cache]
         ELSE IF found.path = None
         THEN IF fallback_enabled
              THEN LET beep == play_system_beep(failing)
                   IN  Returned(beep.ret, found.effects \o beep.effects, found.cache)
              ELSE Returned(FALSE, found.effects, found.cache)
         ELSE LET tried == try_players("play", players, failing, 1) IN
              IF tried.ret
              THEN Returned(TRUE, found.effects \o tried.effects, found.cache)
              ELSE LET beep == play_system_beep(failing)
                   IN  Returned(beep.ret, found.effects \o tried.effects \o beep.effects,
                                found.cache)

play_sound(name, players, fallback_enabled, lru, on_disk, failing) ==
    IF InvalidSoundName(name) THEN Returned(FALSE, << >>, lru)
    ELSE LET found == find_sound_file(name, lru, on_disk) IN
         IF found.raised # ""
         THEN [ret |-> FALSE, raised |-> found.raised, effects |-> found.effects,
               cache |-> found.cache]
         ELSE IF found.path = None
         THEN IF fallback_enabled
              THEN LET beep == play_system_beep(failing)
                   IN  Returned(beep.ret, found.effects \o beep.effects, found.cache)
              ELSE Returned(FALSE, found.effects, found.cache)
         ELSE LET tried == try_players("play", players, failing, 1) IN
              IF tried.ret
              THEN Returned(TRUE, found.effects \o tried.effects, found.cache)
              ELSE IF fallback_enabled
              THEN LET beep == play_system_beep(failing)
                   IN  Returned(beep.ret, found.effects \o tried.effects \o beep.effects,
                                found.cache)
              ELSE Returned(FALSE, found.effects \o tried.effects, found.cache)

\* sound_path of play_sound: what _find_sound_file returned to it, None when
\* it was not called or raised.
resolved(name, lru, on_disk) ==
    IF InvalidSoundName(name) THEN None ELSE find_sound_file(name, lru, on_disk).path

\* The history after play_sound(name): _find_sound_file is called for a
\* valid name only.
first_lookups(seen, name, lru, on_disk) ==
    IF InvalidSoundName(name) THEN seen
    ELSE remember(seen, name, find_sound_file(name, lru, on_disk))

\* The backends a call can reach: the registered ones and the fallback beep.
Registered(sounds, voices) ==
    {sounds[i] : i \in 1..Len(sounds)} \cup {voices[i] : i \in 1..Len(voices)}
        \cup {"system_beep"}

\* The sets of extensions found on disk for the name looked up.
DiskStates == {{}, {".wav"}, {".ogg", ".flac"}, Denied}

\* Mutant of speak_text: an empty registry reports success.
speak_text_empty_ok(text, players, failing) ==
    IF players = << >>
    THEN [ret |-> TRUE, effects |-> << >>]
    ELSE try_players("speak", players, failing, 1)

speak_text(text, players, failing) ==
    IF players = << >>
    THEN [ret |-> FALSE, effects |-> << >>]
    ELSE try_players("speak", players, failing, 1)

(***************************************************************************)
(* HookHandler.handle_event                                                *)
(***************************************************************************)
\* Mutant of JapaneseKeys: the table lacks the entry of "git_commit".
JapaneseKeys_without_git_commit == {
    "Notification", "Stop", "SubagentStop", "UserPromptSubmit",
    "Edit", "MultiEdit", "Write", "NotebookEdit", "TodoWrite", "Read", "Grep",
    "Task", "Bash", "LS", "Glob", "exit_plan_mode", "WebFetch", "WebSearch",
    "git_push", "git_pull", "gh_pr", "test", "build", "docker",
    "npm", "python" }

JapaneseKeys == {
    "Notification", "Stop", "SubagentStop", "UserPromptSubmit",
    "Edit", "MultiEdit", "Write", "NotebookEdit", "TodoWrite", "Read", "Grep",
    "Task", "Bash", "LS", "Glob", "exit_plan_mode", "WebFetch", "WebSearch",
    "git_commit", "git_push", "git_pull", "gh_pr", "test", "build", "docker",
    "npm", "python" }

\* JAPANESE_EVENT_DESCRIPTIONS.get(voice_key, voice_key): the localized
\* description of a key of the table, the raw key otherwise.
japanese_text(voice_key) ==
    IF voice_key \in JapaneseKeys
    THEN [lang |-> "ja", key |-> voice_key]
    ELSE [lang |-> "raw", key |-> voice_key]

BoolName(b) == IF b THEN "True" ELSE "False"

\* A call of play_sound / speak_text seen from handle_event: the call, what
\* happens inside it, and its return with the value returned.
call_speak_text(voice_key, players, failing) ==
    LET r == speak_text(japanese_text(voice_key), players, failing) IN
    << Effect("speak_text", "call") >> \o r.effects
        \o << Effect("speak_text", BoolName(r.ret)) >>

call_play_sound(r) ==
    << Effect("play_sound", "call") >> \o r.effects
        \o << Effect("play_sound", IF r.raised # "" THEN "raise" ELSE BoolName(r.ret)) >>

\* Mutant of both_mode: the sound step runs first, the voice step after it.
both_mode_sound_first(match, cfg, voices, played, failing) ==
    (IF match.sound # None /\ ~cfg.test_mode
     THEN << Effect("sleep", "0.1") >> \o call_play_sound(played) ELSE << >>)
    \o (IF match.voice_key # None /\ ~cfg.test_mode
        THEN call_speak_text(match.voice_key[1], voices, failing) ELSE << >>)

\* elif self.config.mode == "both": voice, then a 0.1 s sleep, then sound.
both_mode(match, cfg, voices, played, failing) ==
    (IF match.voice_key # None /\ ~cfg.test_mode
     THEN call_speak_text(match.voice_key[1], voices, failing) ELSE << >>)
    \o (IF match.sound # None /\ ~cfg.test_mode
        THEN << Effect("sleep", "0.1") >> \o call_play_sound(played) ELSE << >>)

\* Mutant of deliver: a mode that is neither "sound" nor "voice" is handled
\* as "both".
deliver_else_both(match, cfg, voices, played, failing) ==
    IF match.sound = None /\ match.voice_key = None THEN << >>
    ELSE IF cfg.mode = "sound" /\ match.sound # None
    THEN IF ~cfg.test_mode THEN call_play_sound(played) ELSE << >>
    ELSE IF cfg.mode = "voice" /\ match.voice_key # None
    THEN IF ~cfg.test_mode
         THEN call_speak_text(match.voice_key[1], voices, failing) ELSE << >>
    ELSE both_mode(match, cfg, voices, played, failing)

\* Mutant of deliver: the voice branch speaks without looking at test_mode.
deliver_voice_untested(match, cfg, voices, played, failing) ==
    IF match.sound = None /\ match.voice_key = None THEN << >>
    ELSE IF cfg.mode = "sound" /\ match.sound # None
    THEN IF ~cfg.test_mode THEN call_play_sound(played) ELSE << >>
    ELSE IF cfg.mode = "voice" /\ match.voice_key # None
    THEN call_speak_text(match.voice_key[1], voices, failing)
    ELSE IF cfg.mode = "both"
    THEN both_mode(match, cfg, voices, played, failing)
    ELSE << >>

\* The mode dispatch of handle_event once a directive was found; `played` is
\* what play_sound(sound_name) does when it is called.
deliver(match, cfg, voices, played, failing) ==
    IF match.sound = None /\ match.voice_key = None THEN << >>
    ELSE IF cfg.mode = "sound" /\ match.sound # None
    THEN IF ~cfg.test_mode THEN call_play_sound(played) ELSE << >>
    ELSE IF cfg.mode = "voice" /\ match.voice_key # None
    THEN IF ~cfg.test_mode
         THEN call_speak_text(match.voice_key[1], voices, failing) ELSE << >>
    ELSE IF cfg.mode = "both"
    THEN both_mode(match, cfg, voices, played, failing)
    ELSE << >>

\* Whether the dispatch reaches a play_sound call.
plays_sound(match, cfg) ==
    /\ match.sound # None
    /\ ~cfg.test_mode
    /\ cfg.mode \in {"sound", "both"}

\* The payloads a run is given.
RunEvents == {
    Dict(Str(<<"S", "t", "o", "p">>), Absent, [k |-> "absent", command |-> Absent]),
    Dict(Str(<<"P", "r", "e", "T", "o", "o", "l", "U", "s", "e">>), Str(<<"E", "d", "i", "t">>), [k |-> "dict", command |-> Absent]),
    Dict(Str(<<"P", "r", "e", "T", "o", "o", "l", "U", "s", "e">>), Str(<<"B", "a", "s", "h">>), [k |-> "dict", command |-> Str(<<"g", "i", "t", " ", "c", "o", "m", "m", "i", "t", " ", "-", "m", " ", "x">>)]),
    Dict(Str(<<"P", "r", "e", "T", "o", "o", "l", "U", "s", "e">>), Str(<<"B", "a", "s", "h">>), [k |-> "dict", command |-> Str(<<"l", "s", " ", "-", "l", "a">>)]),
    Dict(Str(<<"P", "o", "s", "t", "T", "o", "o", "l", "U", "s", "e">>), Str(<<"B", "a", "s", "h">>), [k |-> "dict", command |-> Str(<<"l", "s", " ", "-", "l", "a">>)]),
    Dict(JNull, Str(<<"E", "d", "i", "t">>), [k |-> "absent", command |-> Absent]) }

\* self.event_matcher.find_match(event_data), tabulated once over the
\* payloads a run can be given.
matched == [data \in RunEvents \cup {NonObject} |-> find_match(data)]

\* Mutant of handle_event: a failed audit write ends handle_event with the
\* error of the write.
handle_event_audit_fatal(data, cfg, sounds, voices, lru, audit_ok, on_disk, failing) ==
    LET audit == << Effect("audit", IF audit_ok THEN "written" ELSE "failed") >>
        match == matched[data]
    IN  IF ~audit_ok
        THEN [raised |-> "OSError", match |-> NoResult, effects |-> audit, cache |-> lru]
        ELSE IF match.raised # ""
        THEN [raised |-> match.raised, match |-> match, effects |-> audit, cache |-> lru]
        ELSE LET played == IF plays_sound(match, cfg)
                           THEN play_sound(match.sound[1], sounds,
                                           cfg.fallback_enabled, lru, on_disk, failing)
                           ELSE Returned(FALSE, << >>, lru)
             IN  [raised |-> played.raised, match |-> match,
                  effects |-> audit \o deliver(match, cfg, voices, played, failing),
                  cache |-> played.cache]

\* handle_event: the audit write (its failure is swallowed), find_match (an
\* error it raises leaves handle_event), then the dispatch; play_sound, the
\* last call of every branch, may raise out of it.
handle_event(data, cfg, sounds, voices, lru, audit_ok, on_disk, failing) ==
    LET audit == << Effect("audit", IF audit_ok THEN "written" ELSE "failed") >>
        match == matched[data]
    IN  IF match.raised # ""
        THEN [raised |-> match.raised, match |-> match, effects |-> audit, cache |-> lru]
        ELSE LET played == IF plays_sound(match, cfg)
                           THEN play_sound(match.sound[1], sounds,
                                           cfg.fallback_enabled, lru, on_disk, failing)
                           ELSE Returned(FALSE, << >>, lru)
             IN  [raised |-> played.raised, match |-> match,
                  effects |-> audit \o deliver(match, cfg, voices, played, failing),
                  cache |-> played.cache]

(***************************************************************************)
(* main(): load_config, HookHandler(config), json.load(sys.stdin),         *)
(* handle_event, sys.exit                                                  *)
(***************************************************************************)
\* Mutant of exit_status: every caught exception exits with status 1.
exit_status_errors_fail(error) == IF error = "" THEN 0 ELSE 1

\* The status main() exits with: sys.exit(0) after handle_event ("" caught),
\* 1 in the JSONDecodeError clause, 0 in the KeyboardInterrupt and Exception
\* clauses.
exit_status(error) == IF error = "JSONDecodeError" THEN 1 ELSE 0

\* CLAUDE_HOOK_MODE is any string; "off" stands for one that names no mode.
Modes == {"sound", "voice", "both", "off"}

\* Standard input: a JSON object, a JSON document that is no object, text
\* that is no JSON, a document nested deeper than the decoder's recursion
\* limit, or bytes (outside any string) that are no text in stdin's encoding.
Stdins ==
    {[kind |-> "object", data |-> e] : e \in RunEvents}
    \cup {[kind |-> k, data |-> NonObject] :
            k \in {"nonobject", "syntax", "nested", "undecodable"}}

\* The exceptions json.load(sys.stdin) can end with on each kind of input;
\* "" is a normal return.  Undecodable bytes raise UnicodeDecodeError when
\* stdin's error handler is strict and reach the decoder as surrogates
\* (JSONDecodeError) when it is surrogateescape.
json_load(kind) ==
    CASE kind \in {"object", "nonobject"} -> {""}
      [] kind = "syntax" -> {"JSONDecodeError"}
      [] kind = "nested" -> {"RecursionError"}
      [] kind = "undecodable" -> {"UnicodeDecodeError", "JSONDecodeError"}

Init ==
    /\ pc = "start"
    /\ stdin \in Stdins
    /\ host \in Hosts
    /\ event_data = NonObject
    /\ result = NoResult
    /\ config = NoConfig
    /\ sound_players = << >>
    /\ voice_players = << >>
    /\ cache = << >>
    /\ trace = << >>
    /\ stage = ""
    /\ caught = ""
    /\ exit_code = None
    /\ calls = 0
    /\ last = None
    /\ world = NoWorld
    /\ looked_up = {}

\* An except clause of main(): the exception is caught and the process exits.
Exit(error) ==
    /\ caught' = error
    /\ exit_code' = Some(exit_status(error))
    /\ pc' = "exited"

LoadConfig ==
    /\ pc = "start"
    /\ stage' = "load_config"
    /\ \/ /\ \E m \in Modes, t \in BOOLEAN :
                config' = [mode |-> m, test_mode |-> t, fallback_enabled |-> TRUE,
                           async_speak |-> TRUE]
          /\ pc' = "configured"
          /\ UNCHANGED <<caught, exit_code>>
       \/ /\ Exit("OSError")
          /\ UNCHANGED config
    /\ UNCHANGED <<stdin, event_data, result, host, sound_players, voice_players,
                   cache, trace, calls, last, world, looked_up>>

\* The is_available() calls of _init_sound_players and _init_voice_players,
\* one per class, in order.
probe_effects(classes) == [i \in 1..Len(classes) |-> Effect("probe", classes[i])]

\* HookHandler(config): AudioManager probes the backends once.
CreateHandler ==
    /\ pc = "configured"
    /\ stage' = "HookHandler"
    /\ sound_players' = init_sound_players(host)
    /\ voice_players' = init_voice_players(host)
    /\ trace' = trace \o probe_effects(sound_player_classes)
                    \o probe_effects(voice_player_classes)
    /\ cache' = << >>
    /\ pc' = "constructed"
    /\ UNCHANGED <<stdin, event_data, result, host, config, caught, exit_code,
                   calls, last, world, looked_up>>

\* HookHandler(config) inside main(): an exception raised while the handler
\* is built (the logger set up, the probes run) is caught by main().
BuildHandler ==
    \/ CreateHandler
    \/ /\ pc = "configured"
       /\ stage' = "HookHandler"
       /\ Exit("Exception")
       /\ UNCHANGED <<stdin, event_data, result, host, config, sound_players,
                      voice_players, cache, trace, calls, last, world, looked_up>>

ReadEvent ==
    /\ pc = "constructed"
    /\ stage' = "json.load"
    /\ \/ \E error \in json_load(stdin.kind) :
            IF error = ""
            THEN /\ event_data' = stdin.data
                 /\ pc' = "parsed"
                 /\ UNCHANGED <<caught, exit_code>>
            ELSE /\ Exit(error)
                 /\ UNCHANGED event_data
       \/ /\ Exit("KeyboardInterrupt")
          /\ UNCHANGED event_data
    /\ UNCHANGED <<stdin, result, host, config, sound_players, voice_players,
                   cache, trace, calls, last, world, looked_up>>

HandleEvent ==
    /\ pc = "parsed"
    /\ stage' = "handle_event"
    /\ \E audit_ok \in BOOLEAN, on_disk \in DiskStates,
          failing \in SUBSET Registered(sound_players, voice_players) :
          \E h \in {handle_event(event_data, config, sound_players, voice_players,
                                  cache, audit_ok, on_disk, failing)} :
          \E sp \in {spawn_indexes(h.effects, failing, host, 1)} :
              \E fates \in [1..Len(sp) -> Fates] :
              \E o \in {outcome(h.effects, failing, host, config, fates)} :
                 /\ result' = h.match
                 /\ looked_up' = IF o.returned /\ plays_sound(h.match, config)
                                 THEN first_lookups(looked_up, h.match.sound[1],
                                                    cache, on_disk)
                                 ELSE looked_up
                 /\ trace' = trace \o o.effects
                 /\ world' = met(audit_ok, on_disk, failing, o.effects, o.children)
                 /\ IF o.returned
                    THEN /\ cache' = h.cache
                         /\ Exit(h.raised)
                    ELSE /\ pc' = "blocked"
                         /\ UNCHANGED <<cache, caught, exit_code>>
    /\ UNCHANGED <<stdin, event_data, host, config, sound_players, voice_players,
                   calls, last>>

Next == LoadConfig \/ BuildHandler \/ ReadEvent \/ HandleEvent

Spec == Init /\ [][Next]_vars

(***************************************************************************)
(* find_match on every payload, and the runs of main()                     *)
(***************************************************************************)
PipelineSpec == (MatchInit \/ Init) /\ [][MatchNext \/ Next]_vars

(***************************************************************************)
(* The AudioManager used directly: AudioManager(config), then any          *)
(* play_sound(name) and speak_text(text) calls                             *)
(***************************************************************************)
MaxCalls == 2

AudioHosts == {
    [on_path |-> {}, system |-> "Linux"],
    [on_path |-> {"say"}, system |-> "Linux"],
    [on_path |-> {"play", "espeak"}, system |-> "Linux"],
    [on_path |-> {"afplay", "say"}, system |-> "Darwin"],
    [on_path |-> Executables, system |-> "Darwin"] }

SoundNames == {
    <<"r", "e", "a", "d", "y">>, <<"b", "a", "s", "h">>, <<"m", "y", ".", "s", "o", "u", "n", "d">>,
    <<".", ".", "/", "r", "e", "a", "d", "y">>, <<"s", "u", "b", "/", "r", "e", "a", "d", "y">>, <<"s", "u", "b", "\\", "r", "e", "a", "d", "y">>, <<".", ".">>, <<"r", "e", ".", ".", "a", "d", "y">> }

Texts == {japanese_text("Stop"), japanese_text("custom")}

AudioInit ==
    /\ pc = "configured"
    /\ host \in AudioHosts
    /\ \E f \in BOOLEAN, a \in BOOLEAN :
          config = [mode |-> "both", test_mode |-> FALSE, fallback_enabled |-> f,
                    async_speak |-> a]
    /\ stdin = NoStdin
    /\ event_data = NonObject
    /\ result = NoResult
    /\ sound_players = << >>
    /\ voice_players = << >>
    /\ cache = << >>
    /\ trace = << >>
    /\ stage = ""
    /\ caught = ""
    /\ exit_code = None
    /\ calls = 0
    /\ last = None
    /\ world = NoWorld
    /\ looked_up = {}

\* The environments a play_sound(name) call is run in: a name the security
\* check turns away reaches neither the disk nor a backend, so one
\* environment stands for all of them.
DisksMet(name) == IF InvalidSoundName(name) THEN {{}} ELSE DiskStates
FailuresMet(name, sounds) ==
    IF InvalidSoundName(name) THEN {{}} ELSE SUBSET Registered(sounds, << >>)

PlaySound ==
    /\ pc = "constructed"
    /\ calls < MaxCalls
    /\ \E name \in SoundNames :
       \E on_disk \in DisksMet(name), failing \in FailuresMet(name, sound_players) :
          \E r \in {play_sound(name, sound_players, config.fallback_enabled,
                                cache, on_disk, failing)} :
          \E sp \in {spawn_indexes(r.effects, failing, host, 1)} :
              \E fates \in [1..Len(sp) -> Fates] :
              \E o \in {outcome(r.effects, failing, host, config, fates)} :
                 /\ trace' = o.effects
                 /\ cache' = r.cache
                 /\ looked_up' = first_lookups(looked_up, name, cache, on_disk)
                 /\ world' = met(TRUE, on_disk, failing, o.effects, o.children)
                 /\ last' = Some([op |-> "play_sound", arg |-> name, ret |-> r.ret,
                                   raised |-> r.raised, returned |-> o.returned,
                                   path |-> resolved(name, cache, on_disk)])
                 /\ pc' = IF o.returned THEN pc ELSE "blocked"
    /\ calls' = calls + 1
    /\ UNCHANGED <<stdin, event_data, result, host, config, sound_players,
                   voice_players, stage, caught, exit_code>>

SpeakText ==
    /\ pc = "constructed"
    /\ calls < MaxCalls
    /\ \E text \in Texts, failing \in SUBSET Registered(<< >>, voice_players) :
          \E r \in {speak_text(text, voice_players, failing)} :
          \E sp \in {spawn_indexes(r.effects, failing, host, 1)} :
              \E fates \in [1..Len(sp) -> Fates] :
              \E o \in {outcome(r.effects, failing, host, config, fates)} :
                 /\ trace' = o.effects
                 /\ world' = met(TRUE, {}, failing, o.effects, o.children)
                 /\ last' = Some([op |-> "speak_text", arg |-> text, ret |-> r.ret,
                                   raised |-> "", returned |-> o.returned,
                                   path |-> None])
                 /\ pc' = IF o.returned THEN pc ELSE "blocked"
    /\ calls' = calls + 1
    /\ UNCHANGED <<stdin, event_data, result, host, config, sound_players,
                   voice_players, cache, stage, caught, exit_code, looked_up>>

AudioNext == CreateHandler \/ PlaySound \/ SpeakText

AudioSpec == AudioInit /\ [][AudioNext]_vars

(***************************************************************************)
(* One AudioManager resolving many names: AudioManager(config), then       *)
(* _find_sound_file(name) calls.  Names are taken up in the order n00,     *)
(* n01, ...; each call looks up the next new name or n00 again.  The file  *)
(* of n00 may come and go between calls, the others stay as they are.      *)
(***************************************************************************)
MaxNames == 33

Digits == <<"0", "1", "2", "3", "4", "5", "6", "7", "8", "9">>
Numbered(k) == <<"n", Digits[(k \div 10) + 1], Digits[(k % 10) + 1]>>

\* The extensions on disk for the k-th name.
DiskOf(k) ==
    IF k = 0 THEN {{}, {".wav"}}
    ELSE IF k % 2 = 0 THEN {{".wav"}} ELSE {{}}

CacheInit ==
    /\ AudioInit
    /\ host = [on_path |-> Executables, system |-> "Darwin"]
    /\ config.fallback_enabled
    /\ config.async_speak

FindSoundFile ==
    /\ pc = "constructed"
    /\ \E k \in {0, Cardinality(looked_up)} :
          /\ k < MaxNames
          /\ \E on_disk \in DiskOf(k) :
             \E r \in {find_sound_file(Numbered(k), cache, on_disk)} :
                /\ trace' = r.effects
                /\ cache' = r.cache
                /\ looked_up' = remember(looked_up, Numbered(k), r)
                /\ world' = met(TRUE, on_disk, {}, r.effects, << >>)
                /\ last' = Some([op |-> "_find_sound_file", arg |-> Numbered(k),
                                  ret |-> r.path # None, raised |-> r.raised,
                                  returned |-> TRUE, path |-> r.path])
    /\ UNCHANGED <<pc, stdin, event_data, result, host, config, sound_players,
                   voice_players, stage, caught, exit_code, calls>>

CacheNext == CreateHandler \/ FindSoundFile

CacheSpec == CacheInit /\ [][CacheNext]_vars

\* C14: a call of _find_sound_file for a name it returned for before returns
\* what it returned the first time and makes no file-existence check,
\* whatever names were resolved in between.
C14_RepeatedResolutionCached ==
    [][\A e \in looked_up :
          (last' # None /\ last'[1].op = "_find_sound_file" /\ last'[1].arg = e.name)
          => /\ last'[1].path = e.path
             /\ \A i \in 1..Len(trace') : trace'[i].op # "exists"]_vars

(***************************************************************************)
(* Claims about AudioManager.play_sound (checked under AudioSpec)          *)
(***************************************************************************)
\* The name holds "/", "\" or "..", stated on its characters.
TraversalName(name) ==
    \/ \E i \in 1..Len(name) : name[i] \in {"/", "\\"}
    \/ \E i \in 1..(Len(name) - 1) : name[i] = "." /\ name[i + 1] = "."

\* C5: play_sound on a name containing "/", "\" or ".." returns False
\* without raising and with no effect at all: no file-existence check, no
\* backend play, no fallback beep, and nothing stored in the lookup cache.
C5_InvalidNameRejected ==
    /\ (last # None /\ last[1].op = "play_sound" /\ TraversalName(last[1].arg))
          => /\ last[1].ret = FALSE
             /\ last[1].raised = ""
             /\ trace = << >>
    /\ \A i \in 1..Len(cache) : ~TraversalName(cache[i].name)

\* C5 witness: play_sound("sub\ready") was called on a manager whose
\* fallback is enabled, and returned False with an empty trace.
C5_Witness ==
    /\ last # None
    /\ last[1].op = "play_sound"
    /\ last[1].arg = <<"s", "u", "b", "\\", "r", "e", "a", "d", "y">>
    /\ config.fallback_enabled
    /\ last[1].ret = FALSE
    /\ trace = << >>

\* The attempts of the last call, as positions of the trace, and those that
\* failed inside the backend: the spawn raised, or the process started ended
\* with a non-zero status.
Attempts(ops) == {i \in 1..Len(trace) : trace[i].op \in ops}
Started == spawn_indexes(trace, world.failing, host, 1)
SpawnFailed == {i \in Attempts({"play", "speak", "beep"}) : trace[i].arg \in world.failing}
EndedNonZero ==
    {Started[k] : k \in {j \in 1..Len(world.children) :
                            world.children[j].fate = "nonzero"}}
\* The list a play / speak attempt walks, and the attempt's rank in the call.
ListOf(op) == IF op = "play" THEN sound_players ELSE voice_players
Rank(i) == Cardinality({j \in Attempts({trace[i].op}) : j <= i})

\* C12: a backend whose delivery attempt fails inside (the process cannot
\* be spawned, or the process spawned ends with a non-zero status) reports
\* failure: the call raises nothing, it goes on to the next backend of the
\* list when there is one, and it reports success only if some attempt did
\* not fail.
C12_BackendFailureIsSoft ==
    (last # None /\ last[1].returned /\ SpawnFailed \cup EndedNonZero # {})
    => /\ last[1].raised = ""
       /\ \A i \in (SpawnFailed \cup EndedNonZero) \cap Attempts({"play", "speak"}) :
             Rank(i) < Len(ListOf(trace[i].op))
                => (i < Len(trace) /\ trace[i + 1].op = trace[i].op)
       /\ last[1].ret
             => Attempts({"play", "speak", "beep"}) \ (SpawnFailed \cup EndedNonZero) # {}

\* The last call was play_sound on a valid name and _find_sound_file
\* returned to it (a path or None).
ValidPlayReturned ==
    /\ last # None
    /\ last[1].op = "play_sound"
    /\ ~TraversalName(last[1].arg)
    /\ last[1].raised = ""
\* Every registered sound backend was attempted and reported failure.
AllSoundPlayersFailed ==
    \A i \in 1..Len(sound_players) :
        /\ sound_players[i] \in world.failing
        /\ \E j \in Attempts({"play"}) : trace[j].arg = sound_players[i]

\* C13: for a valid name, when no file is found no registered backend is
\* invoked and the beep is invoked exactly when the fallback is enabled;
\* when a file is found the beep is invoked exactly when every registered
\* backend reported failure and the fallback is enabled; with the fallback
\* disabled both cases return False with no beep; the beep is never invoked
\* twice.
C13_FallbackBeep ==
    ValidPlayReturned
    => /\ Cardinality(Attempts({"beep"})) <= 1
       /\ last[1].path = None
             => /\ Attempts({"play"}) = {}
                /\ Attempts({"beep"}) # {} <=> config.fallback_enabled
                /\ ~config.fallback_enabled => last[1].ret = FALSE
       /\ last[1].path # None
             => /\ Attempts({"beep"}) # {}
                      <=> (config.fallback_enabled /\ AllSoundPlayersFailed)
                /\ (AllSoundPlayersFailed /\ ~config.fallback_enabled)
                      => last[1].ret = FALSE

\* C13 witness: a file was found, both registered backends failed and the
\* enabled fallback played the beep.
C13_Witness ==
    /\ ValidPlayReturned
    /\ last[1].path # None
    /\ Len(sound_players) >= 2
    /\ AllSoundPlayersFailed
    /\ config.fallback_enabled
    /\ Attempts({"beep"}) # {}

\* C16: availability is probed while the AudioManager is constructed and
\* never after: no play_sound or speak_text call probes a backend, and no
\* step after construction changes sound_players or voice_players, members
\* or order, also when backends fail in the call.
C16_ProbedOnceListsFrozen ==
    /\ [](last # None => Attempts({"probe"}) = {})
    /\ [][pc # "configured"
            => (sound_players' = sound_players /\ voice_players' = voice_players)]_vars

\* C16 witness: two calls were made on a manager with three sound backends,
\* the second one with a failing backend, and the lists are as probed.
C16_Witness ==
    /\ calls = 2
    /\ last # None
    /\ world.failing # {}
    /\ Attempts({"play", "speak"}) # {}
    /\ sound_players = <<"afplay", "sox", "system_beep">>
    /\ voice_players = <<"macos_say", "espeak">>

\* The attempts of the last call on the backends of one list that reported
\* success.
Succeeded(op) == {i \in Attempts({op}) : trace[i].arg \notin world.failing}

\* The backends of one list are attempted in the order of the list, each
\* only after every backend before it reported failure, and none after one
\* reported success.
InOrderUntilSuccess(op) ==
    /\ Cardinality(Attempts({op})) <= Len(ListOf(op))
    /\ \A i \in Attempts({op}) :
          /\ trace[i].arg = ListOf(op)[Rank(i)]
          /\ \A r \in 1..(Rank(i) - 1) : ListOf(op)[r] \in world.failing
          /\ i \in Succeeded(op) => Rank(i) = Cardinality(Attempts({op}))
    /\ Cardinality(Succeeded(op)) <= 1

\* C19: play_sound and speak_text attempt the registered backends strictly
\* in registry order and stop at the first that reports success; speak_text
\* returns True exactly when one did, and play_sound returns True when one
\* did.
C19_RegistryOrderFirstSuccess ==
    last # None
    => /\ InOrderUntilSuccess("play")
       /\ InOrderUntilSuccess("speak")
       /\ last[1].op = "speak_text" => (last[1].ret <=> Succeeded("speak") # {})
       /\ (last[1].op = "play_sound" /\ Succeeded("play") # {}) => last[1].ret

\* C19 witness: of three sound backends the first failed, the second
\* succeeded and the third was not attempted.
C19_Witness ==
    /\ last # None
    /\ last[1].op = "play_sound"
    /\ last[1].ret
    /\ sound_players = <<"afplay", "sox", "system_beep">>
    /\ world.failing = {"afplay"}
    /\ Cardinality(Attempts({"play"})) = 2
    /\ Attempts({"beep"}) = {}

(***************************************************************************)
(* Claims about main() and handle_event (checked under Spec)               *)
(***************************************************************************)
Exited == pc = "exited"
Handled == Exited /\ stage = "handle_event"
\* HookHandler(config) returned: the AudioManager exists.
Constructed ==
    \/ pc \in {"constructed", "parsed"}
    \/ Exited /\ stage \in {"json.load", "handle_event"}

IndexesOf(e) == {i \in 1..Len(trace) : trace[i] = e}
OpsIn(ops) == {i \in 1..Len(trace) : trace[i].op \in ops}

\* C6: whenever json.load cannot parse what standard input holds, the
\* process exits with a non-zero status.
C6_UnparseableExitsNonZero ==
    (Exited /\ stage = "json.load" /\ caught # "KeyboardInterrupt"
        /\ stdin.kind \in {"syntax", "nested", "undecodable"})
    => exit_code # Some(0)

\* C7: a run whose input parses exits with status 0, whichever step raised:
\* load_config, the construction of the handler, matching, resolution or
\* delivery.
C7_ParsedRunExitsZero ==
    (Exited /\ stdin.kind \in {"object", "nonobject"}) => exit_code = Some(0)

\* C7 witness: find_match raised TypeError inside handle_event, main() caught
\* it and exited 0.
C7_Witness ==
    /\ Handled
    /\ stdin.kind = "object"
    /\ caught = "TypeError"
    /\ exit_code = Some(0)

\* C8: once the AudioManager is constructed its sound_players list is not
\* empty, and when neither afplay nor play is on the PATH it holds the
\* system beep player.
C8_SoundPlayersNonEmpty ==
    Constructed
    => /\ sound_players # << >>
       /\ (host.on_path \cap {"afplay", "play"} = {})
             => \E i \in 1..Len(sound_players) : sound_players[i] = "system_beep"

\* C8 witness: a constructed manager on a host with no executable at all.
C8_Witness ==
    /\ Constructed
    /\ host.on_path = {}
    /\ sound_players = << "system_beep" >>

\* No voice probe succeeds on the host.
NoVoiceOnHost ==
    /\ ~("say" \in host.on_path /\ host.system = "Darwin")
    /\ "espeak" \notin host.on_path

\* C9: with no voice backend available at startup, every speak_text call
\* returns False at once (no backend speak in between, nothing raised) and
\* the run exits with status 0.
C9_NoVoiceIsNoOp ==
    (Handled /\ NoVoiceOnHost)
    => /\ OpsIn({"speak"}) = {}
       /\ \A i \in IndexesOf(Effect("speak_text", "call")) :
             i < Len(trace) /\ trace[i + 1] = Effect("speak_text", "False")
       /\ IndexesOf(Effect("speak_text", "True")) = {}
       /\ exit_code = Some(0)

\* C9 witness: a voice-mode run on a host without voice backends called
\* speak_text for a matched event.
C9_Witness ==
    /\ Handled
    /\ NoVoiceOnHost
    /\ config.mode = "voice"
    /\ result.voice_key = Some("Stop")
    /\ IndexesOf(Effect("speak_text", "call")) # {}

SoundOps == {"play_sound", "exists", "play", "beep"}
SpeakReturns == {Effect("speak_text", "True"), Effect("speak_text", "False")}

\* C10: in mode "both", nothing of the sound step (the play_sound call, its
\* file lookup, a backend play, the beep) happens before the 0.1 s sleep,
\* and the sleep happens after speak_text returned; outside test mode an
\* event with a full directive gets the voice call, the sleep and the sound
\* call, in that order.
C10_VoiceBeforeSound ==
    (Handled /\ config.mode = "both" /\ result.raised = ""
        /\ result.sound # None /\ result.voice_key # None)
    => /\ \A i \in OpsIn(SoundOps) :
             \E r \in 1..Len(trace), d \in 1..Len(trace) :
                /\ r < d /\ d < i
                /\ trace[r] \in SpeakReturns
                /\ trace[d] = Effect("sleep", "0.1")
       /\ \A i \in OpsIn({"speak_text", "speak"}) :
             \A j \in OpsIn(SoundOps \cup {"sleep"}) : i < j
       /\ ~config.test_mode
             => /\ IndexesOf(Effect("speak_text", "call")) # {}
                /\ IndexesOf(Effect("sleep", "0.1")) # {}
                /\ IndexesOf(Effect("play_sound", "call")) # {}

\* C10 witness: a both-mode run in which a voice backend spoke and a sound
\* backend played.
C10_Witness ==
    /\ Handled
    /\ config.mode = "both"
    /\ ~config.test_mode
    /\ OpsIn({"speak"}) # {}
    /\ OpsIn({"play"}) # {}
    /\ IndexesOf(Effect("play_sound", "True")) # {}

DeliveryOps == {"play", "speak", "beep"}

ChildFates == {world.children[k].fate : k \in 1..Len(world.children)}

\* C15: main() runs the backends fire-and-forget: handle_event never waits
\* for a process it started, so once it was entered it has returned and the
\* process has exited, with status 0, also when a child never ends or ends
\* with a non-zero status.
C15_NeverWaitsForChild ==
    /\ pc # "blocked"
    /\ stage = "handle_event" => Exited
    /\ (Handled /\ ChildFates \cap {"hangs", "nonzero"} # {}) => exit_code = Some(0)

\* C15 witness: a both-mode run started a synthesizer that never ends and a
\* player that crashed, and exited with status 0.
C15_Witness ==
    /\ Handled
    /\ config.mode = "both"
    /\ Len(world.children) = 2
    /\ world.children[1] = [player |-> "espeak", fate |-> "hangs"]
    /\ world.children[2] = [player |-> "afplay", fate |-> "nonzero"]
    /\ exit_code = Some(0)

\* What handle_event did: the trace after the probes of the construction.
Handling == SubSeq(trace, Len(sound_player_classes) + Len(voice_player_classes) + 1,
                   Len(trace))
\* The same call in the same environment, with an audit file that can be
\* written.
WithAuditWritten ==
    handle_event(event_data, config, sound_players, voice_players, << >>, TRUE,
                 world.on_disk, world.failing)

\* C18: handle_event attempts the audit write first and exactly once, also
\* when find_match then raises; when the write fails, the directive matched,
\* the steps that follow, the error that leaves handle_event (if any) and
\* the exit status are those of the same run with the write succeeding.
C18_AuditBestEffort ==
    Handled
    => /\ Handling # << >>
       /\ Handling[1] = Effect("audit", IF world.audit_ok THEN "written" ELSE "failed")
       /\ Cardinality(OpsIn({"audit"})) = 1
       /\ ~world.audit_ok
             => /\ result = WithAuditWritten.match
                /\ Tail(Handling) = Tail(WithAuditWritten.effects)
                /\ caught = WithAuditWritten.raised
                /\ caught # "OSError"

\* C18 witness: the audit write failed in a both-mode run, and the voice
\* and the sound were delivered all the same.
C18_Witness ==
    /\ Handled
    /\ ~world.audit_ok
    /\ config.mode = "both"
    /\ OpsIn({"speak"}) # {}
    /\ OpsIn({"play"}) # {}
    /\ exit_code = Some(0)

VoiceOps == {"speak_text", "speak"}
VoiceBackends == {voice_player_classes[i] : i \in 1..Len(voice_player_classes)}
ChildrenOf == {world.children[k].player : k \in 1..Len(world.children)}

\* C21: in mode "sound" handle_event makes no speak_text call and invokes no
\* voice backend; in mode "voice" it makes no play_sound call, no file
\* lookup, no sound backend play, no beep and no sleep; with any other mode
\* than "sound", "voice" and "both" it does none of these and starts no
\* process.
C21_ModesIsolated ==
    Handled
    => /\ config.mode = "sound"
             => (OpsIn(VoiceOps) = {} /\ ChildrenOf \cap VoiceBackends = {})
       /\ config.mode = "voice"
             => (OpsIn(SoundOps \cup {"sleep"}) = {} /\ ChildrenOf \subseteq VoiceBackends)
       /\ config.mode \notin {"sound", "voice", "both"}
             => (OpsIn(VoiceOps \cup SoundOps \cup {"sleep"}) = {}
                 /\ world.children = << >>)

\* C21 witness: a run whose mode names no mode, outside test mode, on a
\* host with every backend, matched a full directive and delivered nothing.
C21_Witness ==
    /\ Handled
    /\ config.mode = "off"
    /\ ~config.test_mode
    /\ host.on_path = Executables
    /\ result = Return(Some(<<"c", "o", "m", "p", "l", "e", "t", "e">>), Some("Stop"))
    /\ OpsIn(VoiceOps \cup SoundOps) = {}

(***************************************************************************)
(* Claims about find_match and handle_event together (checked under        *)
(* PipelineSpec)                                                           *)
(***************************************************************************)
\* C17: what find_match returns is a pair with both fields set (to
\* non-empty values) or the null directive with both fields None, never one
\* field without the other; and on the null directive handle_event does
\* nothing after the audit write, in every mode: no speak_text or play_sound
\* call, no file lookup, no backend, no beep, no sleep, no child process.
C17_NullDirectiveIsSilent ==
    /\ ((pc = "matched" \/ Handled) /\ result.raised = "")
          => /\ result.sound = None <=> result.voice_key = None
             /\ result.sound # None
                   => (result.sound[1] # << >> /\ result.voice_key[1] # "")
    /\ (Handled /\ result = NullDirective)
          => /\ OpsIn({"speak_text", "speak", "sleep", "play_sound", "exists",
                       "play", "beep"}) = {}
             /\ world.children = << >>
             /\ exit_code = Some(0)

\* C17 witness: a PostToolUse event of the Bash tool matched no rule in a
\* both-mode run outside test mode, on a host with every backend.
C17_Witness ==
    /\ Handled
    /\ result = NullDirective
    /\ event_data.tool_name = Str(<<"B", "a", "s", "h">>)
    /\ config.mode = "both"
    /\ ~config.test_mode
    /\ host.on_path = Executables
    /\ OpsIn({"audit"}) # {}

\* The description keys of the rules of a table.
KeysOf(table) == {table[i].voice_key : i \in 1..Len(table)}

\* C23: the description key of every rule of the three tables, and so the
\* key of every directive find_match returns, is a key of the localization
\* table: the text handle_event passes to speak_text is the localized
\* description, never the raw key.
C23_EveryKeyLocalized ==
    /\ KeysOf(system_events) \cup KeysOf(tools) \cup KeysOf(bash_commands)
          \subseteq JapaneseKeys
    /\ ((pc = "matched" \/ Handled) /\ result.voice_key # None)
          => /\ result.voice_key[1] \in JapaneseKeys
             /\ japanese_text(result.voice_key[1]) = [lang |-> "ja", key |-> result.voice_key[1]]

\* C23 witness: a voice-mode run spoke the description of the git_commit rule.
C23_Witness ==
    /\ Handled
    /\ config.mode = "voice"
    /\ ~config.test_mode
    /\ result.voice_key = Some("git_commit")
    /\ japanese_text("git_commit").lang = "ja"
    /\ OpsIn({"speak"}) # {}

(***************************************************************************)
(* Claims about find_match (checked under MatchSpec)                       *)
(***************************************************************************)
PairOf(p) == Return(Some(p.sound), Some(p.voice_key))

IsDict == event_data.k = "dict"
NameIsStr == IsDict /\ event_data.hook_event_name.k \in {"str", "absent"}
NameText == Get(event_data.hook_event_name, Str(<< >>)).s
SystemHits == {i \in 1..Len(system_events) : matches(system_events[i], NameText)}

\* The event is a shell-executor pre-execution event whose command is a
\* string, or is structurally absent (then the command is the empty string).
IsBashPreToolUse ==
    /\ IsDict
    /\ event_data.hook_event_name = Str(<<"P", "r", "e", "T", "o", "o", "l", "U", "s", "e">>)
    /\ event_data.tool_name = Str(<<"B", "a", "s", "h">>)
HasCommandText ==
    \/ event_data.tool_input.k = "absent"
    \/ /\ event_data.tool_input.k = "dict"
       /\ event_data.tool_input.command.k \in {"str", "absent"}
CommandText ==
    IF event_data.tool_input.k = "absent" THEN << >>
    ELSE Get(event_data.tool_input.command, Str(<< >>)).s
BashHits == {i \in 1..Len(bash_commands) : matches(bash_commands[i], CommandText)}

\* C1: when the event name matches a system-lifecycle rule (prefix match up
\* to case), find_match returns the pair of the first such rule in table
\* order, whatever the tool_name and tool_input fields hold.
C1_SystemEventWins ==
    (pc = "matched" /\ NameIsStr /\ SystemHits # {})
    => LET first == CHOOSE i \in SystemHits : \A j \in SystemHits : i <= j
       IN  result = PairOf(system_events[first])

\* C1 witness: a lower-case event name with a null tool_name and a null
\* tool_input still yields the Notification rule.
C1_Witness ==
    /\ pc = "matched"
    /\ event_data.hook_event_name = Str(<<"n", "o", "t", "i", "f", "i", "c", "a", "t", "i", "o", "n">>)
    /\ event_data.tool_name = JNull
    /\ event_data.tool_input.k = "null"
    /\ result = Return(Some(<<"r", "e", "a", "d", "y">>), Some("Notification"))

\* C2: for a Bash PreToolUse event, find_match returns the pair of the rule
\* of highest priority among the bash_commands rules matching the command
\* from its start, the earliest declared among those of maximal priority.
C2_HighestPriorityWins ==
    (pc = "matched" /\ IsBashPreToolUse /\ HasCommandText)
    => \E i \in BashHits :
          /\ \A j \in BashHits : bash_commands[j].priority <= bash_commands[i].priority
          /\ \A j \in BashHits :
                bash_commands[j].priority = bash_commands[i].priority => i <= j
          /\ result = PairOf(bash_commands[i])

\* C2 witness: "git commit -m x" matches git_commit (95) and the catch-all
\* (0) and resolves to git_commit.
C2_Witness ==
    /\ pc = "matched"
    /\ IsBashPreToolUse
    /\ event_data.tool_input.k = "dict"
    /\ event_data.tool_input.command = Str(<<"g", "i", "t", " ", "c", "o", "m", "m", "i", "t", " ", "-", "m", " ", "x">>)
    /\ Cardinality(BashHits) > 1
    /\ result = Return(Some(<<"c", "o", "m", "m", "i", "t">>), Some("git_commit"))

\* C3: a Bash PreToolUse event never resolves to the null directive, and a
\* command that matches none of the specific shell rules (those of priority
\* above 0) resolves to the catch-all pair (sound "bash", key "Bash").
C3_CatchAll ==
    (pc = "matched" /\ IsBashPreToolUse /\ HasCommandText)
    => /\ result.raised = ""
       /\ result.sound # None
       /\ result.voice_key # None
       /\ (\A i \in BashHits : bash_commands[i].priority = 0)
             => result = Return(Some(<<"b", "a", "s", "h">>), Some("Bash"))

\* C3 witness: "ls -la" matches no specific rule and yields the catch-all.
C3_Witness ==
    /\ pc = "matched"
    /\ IsBashPreToolUse
    /\ event_data.tool_input.k = "dict"
    /\ event_data.tool_input.command = Str(<<"l", "s", " ", "-", "l", "a">>)
    /\ \A i \in BashHits : bash_commands[i].priority = 0
    /\ result = Return(Some(<<"b", "a", "s", "h">>), Some("Bash"))

\* C4: find_match raises no error on any payload, however malformed.
C4_NeverRaises == pc = "matched" => result.raised = ""

ToolIsStr == IsDict /\ event_data.tool_name.k \in {"str", "absent"}
ToolText == Get(event_data.tool_name, Str(<< >>)).s
ToolHits == {i \in 1..Len(tools) : matches(tools[i], ToolText)}

\* C20: an event of the Bash tool whose name is not "PreToolUse" and matches
\* no system rule yields the null directive whatever tool_input and its
\* command hold; and an event that matches no system rule and no tool rule
\* and whose tool_name is not exactly "Bash" yields the null directive.
C20_ShellRulesOnlyBeforeExecution ==
    (pc = "matched" /\ NameIsStr /\ ToolIsStr /\ SystemHits = {})
    => /\ (ToolText = <<"B", "a", "s", "h">>
              /\ NameText # <<"P", "r", "e", "T", "o", "o", "l", "U", "s", "e">>)
             => result = NullDirective
       /\ (ToolHits = {} /\ ToolText # <<"B", "a", "s", "h">>)
             => result = NullDirective

\* C20 witness: a PostToolUse event of the Bash tool running "git commit -m x"
\* yields the null directive.
C20_Witness ==
    /\ pc = "matched"
    /\ event_data.hook_event_name = Str(<<"P", "o", "s", "t", "T", "o", "o", "l", "U", "s", "e">>)
    /\ event_data.tool_name = Str(<<"B", "a", "s", "h">>)
    /\ event_data.tool_input.k = "dict"
    /\ event_data.tool_input.command = Str(<<"g", "i", "t", " ", "c", "o", "m", "m", "i", "t", " ", "-", "m", " ", "x">>)
    /\ result = NullDirective

\* The regex of a rule of the first two tables is plain text: its characters.
OwnText(p) == [k \in 1..Len(p.regex[1]) |-> p.regex[1][k].c]

\* C22: an event whose name is the pattern text of a system-event rule
\* yields the pair of that very rule, and an event (matching no system
\* rule, which would win) whose tool_name is the pattern text of a tool rule
\* yields the pair of that very rule: no rule is hidden by an earlier rule
\* of its table.
C22_NoRuleShadowed ==
    (pc = "matched" /\ NameIsStr)
    => /\ \A i \in 1..Len(system_events) :
             NameText = OwnText(system_events[i]) => result = PairOf(system_events[i])
       /\ (ToolIsStr /\ SystemHits = {})
             => \A i \in 1..Len(tools) :
                   ToolText = OwnText(tools[i]) => result = PairOf(tools[i])

\* C22 witness: tool_name "MultiEdit", which ends in the text of the earlier
\* rule Edit, yields the MultiEdit rule.
C22_Witness ==
    /\ pc = "matched"
    /\ event_data.hook_event_name = Str(<<"P", "r", "e", "T", "o", "o", "l", "U", "s", "e">>)
    /\ event_data.tool_name = Str(<<"M", "u", "l", "t", "i", "E", "d", "i", "t">>)
    /\ ToolText = OwnText(tools[2])
    /\ result = Return(Some(<<"e", "d", "i", "t">>), Some("MultiEdit"))

====
